---- MODULE Spec2Model ----
(***************************************************************************)
(* A model of the RAG chatbot: the persisted Chroma collection, the two    *)
(* RAGEngine instances that the two front ends (api.py, app.py) open on    *)
(* it, the DocumentLoader, and the two upload handlers with their          *)
(* temporary files.                                                        *)
(*                                                                         *)
(* Environment.  Calls that leave the process fail nondeterministically    *)
(* only where a cause exists in the modelled world: an uploaded file may   *)
(* be corrupt (its loader raises), staging a file may fail after the       *)
(* temporary file was created, the Ollama embedding / generation service   *)
(* may be unreachable, _setup_qa_chain may raise, and a call through a     *)
(* collection handle raises when that collection has been deleted.         *)
(* os.unlink of an existing temporary file, and count / delete_collection  *)
(* on a collection that exists, succeed.  Presentation state of the front  *)
(* ends (the chat transcript, documents_loaded) is not modelled.           *)
(*                                                                         *)
(* Granularity.  An engine call is one step: each reads or writes the      *)
(* shared collection once.  An upload handler is one step too: its         *)
(* temporary files are private to the request and its only access to       *)
(* shared state is its single create_vectorstore call.                     *)
(*                                                                         *)
(* History.  last / prev record the engine calls and req the upload        *)
(* requests.  They do not influence the program; Spec keeps the first      *)
(* record and SpecRequests the second, over the same behaviours.           *)
(***************************************************************************)
EXTENDS Integers, Sequences, FiniteSets, TLC

VARIABLES
    collId,        \* id of the collection named COLLECTION_NAME on disk, None when absent
    collCount,     \* number of entries in that collection
    made,          \* number of collections created so far (source of fresh ids)
    vectorstore,   \* [engine -> handle]   RAGEngine.vectorstore (the id its _collection has)
    qa_chain,      \* [engine -> handle]   RAGEngine.qa_chain (the handle its retriever uses)
    last,          \* record of the most recent engine call
    prev,          \* after a get_stats call: the engine call it followed
    pc,            \* [front end -> "startup" before its first load, then "idle"]
    req,           \* record of the upload request handled in the last step, if any
    log,           \* the record a specification keeps: "calls", "requests" or "loader"
    loaderIn,      \* file_paths given to process_documents (loader specification)
    loaderOut      \* what process_documents did with them

storeVars  == <<collId, collCount, made>>
engineVars == <<vectorstore, qa_chain>>
logVars    == <<last, prev>>
loaderVars == <<loaderIn, loaderOut>>
vars == <<storeVars, engineVars, logVars, pc, req, log, loaderVars>>

(***************************************************************************)
(* Bounds of the model.                                                    *)
(***************************************************************************)
MaxGen   == 2      \* collections ever created
MaxCount == 2      \* entries in the collection
MaxFiles == 2      \* files in one upload batch

(***************************************************************************)
(* Program constants.                                                      *)
(***************************************************************************)
None == 0
TOP_K_RESULTS == 3
SUPPORTED_EXTENSIONS == {".pdf", ".txt", ".docx", ".md"}
Engines == {"api", "app"}

SENTINEL == "No documents loaded. Please upload documents first."
ERROR    == "Error: "
ANSWER   == "result"

Min(a, b) == IF a <= b THEN a ELSE b

(***************************************************************************)
(* Files.  A file is its extension and what its body holds: "text" (one    *)
(* chunk of text), "blank" (nothing to extract) or "corrupt" (the loader   *)
(* raises).                                                                *)
(***************************************************************************)
Bodies == {"text", "blank", "corrupt"}
LoaderExts == {".pdf", ".txt", ".docx", ".md", ".PDF", ".exe", ""}
File(x, b) == [ext |-> x, body |-> b]

\* str.lower() on the extension
Lower(x) ==
    CASE x = ".PDF" -> ".pdf"
      [] x = ".TXT" -> ".txt"
      [] OTHER -> x

(***************************************************************************)
(* document_loader.py                                                      *)
(***************************************************************************)
\* the if / elif chain of load_document; "none" is its else branch
LoaderFor(x) ==
    CASE x = ".pdf"  -> "PyPDFLoader"
      [] x = ".txt"  -> "TextLoader"
      [] x = ".docx" -> "Docx2txtLoader"
      [] x = ".md"   -> "UnstructuredMarkdownLoader"
      [] OTHER -> "none"

\* loader.load(): the documents of the file, or the loader's own exception
LoaderLoad(f) ==
    IF f.body = "corrupt"
    THEN [raised |-> "LoaderError", docs |-> <<>>]
    ELSE [raised |-> "", docs |-> <<f.body>>]

\* load_document: raised is the class of the exception that leaves the
\* function ("" when it returns), loader the loader class that was built.
load_document(f) ==
    LET ext    == Lower(f.ext)
        loader == LoaderFor(ext)
        inner  == IF loader = "none"
                  THEN [raised |-> "ValueError", docs |-> <<>>]
                  ELSE LoaderLoad(f)
    IN  IF inner.raised = ""
        THEN [raised |-> "", loader |-> loader, docs |-> inner.docs]
        ELSE [raised |-> "Exception", loader |-> loader, docs |-> <<>>]

\* split_documents: a document with text gives one chunk, a blank one none
RECURSIVE split_documents(_)
split_documents(docs) ==
    IF docs = <<>> THEN 0
    ELSE (IF Head(docs) = "text" THEN 1 ELSE 0) + split_documents(Tail(docs))

\* process_documents: the loop over file_paths, then the split.  failed is
\* the index of the path whose load raised (0 when none did), loaders the
\* loader classes built so far.
RECURSIVE ProcessFrom(_, _, _, _)
ProcessFrom(paths, i, all_docs, loaders) ==
    IF i > Len(paths)
    THEN [raised |-> "", failed |-> 0, chunks |-> split_documents(all_docs),
          loaders |-> loaders]
    ELSE LET r == load_document(paths[i])
         IN  IF r.raised # ""
             THEN [raised |-> r.raised, failed |-> i, chunks |-> 0,
                   loaders |-> Append(loaders, r.loader)]
             ELSE ProcessFrom(paths, i + 1, all_docs \o r.docs,
                              Append(loaders, r.loader))

process_documents(paths) == ProcessFrom(paths, 1, <<>>, <<>>)

\* loaderOut before and after the call of the loader specification
NotRun == [done |-> FALSE, raised |-> "", failed |-> 0, chunks |-> 0, loaders |-> <<>>]
Ran(r) ==
    [done |-> TRUE, raised |-> r.raised, failed |-> r.failed, chunks |-> r.chunks,
     loaders |-> r.loaders]

(***************************************************************************)
(* rag_engine.py.  Every engine call leaves a record in last.              *)
(***************************************************************************)
NoCall ==
    [e |-> "none", op |-> "none", n |-> 0, cnt0 |-> 0, vs0 |-> None,
     qa0 |-> None, raised |-> "", ret |-> 0, answer |-> "", sources |-> 0,
     svc |-> {}]

\* the record of a call of op on engine e, begun in the current state.
\* raised is the exception that reaches the caller ("" when the call
\* returns); cnt0, vs0 and qa0 are the entry count and the engine fields
\* that create_vectorstore found.
Call(e, op, n) ==
    IF op = "create_vectorstore"
    THEN [NoCall EXCEPT !.e = e, !.op = op, !.n = n, !.cnt0 = collCount,
                        !.vs0 = vectorstore[e], !.qa0 = qa_chain[e]]
    ELSE [NoCall EXCEPT !.e = e, !.op = op]

\* what prev keeps of the call that a get_stats call follows
NoPrev == [e |-> "none", op |-> "none", n |-> 0, raised |-> "", cnt0 |-> 0, ret |-> 0]

Brief(c) ==
    IF c.op \in {"create_vectorstore", "clear_database"}
    THEN [e |-> c.e, op |-> c.op, n |-> c.n, raised |-> c.raised,
          cnt0 |-> c.cnt0, ret |-> c.ret]
    ELSE NoPrev

Log(c) ==
    /\ last' = IF log = "calls" THEN c ELSE NoCall
    /\ prev' = IF log = "calls" /\ c.op = "get_stats" THEN Brief(last) ELSE NoPrev

\* get_or_create_collection in Chroma.__init__: the id of the collection
GetOrCreate == IF collId # None THEN collId ELSE made + 1

\* the model creates at most MaxGen collections
CanCreate == collId # None \/ made < MaxGen

\* a from_documents that replaces what the collection holds
FromDocumentsReplaces(count, n) == n

\* Chroma.from_documents adds the documents under fresh ids: the entry
\* count after it
FromDocumentsCount(count, n) == count + n

\* the exception that leaves create_vectorstore: from the embedding call
\* inside Chroma.from_documents, or from _setup_qa_chain
CreateRaises(n, embOk, setupOk) ==
    IF n > 0 /\ ~embOk THEN "EmbeddingError"
    ELSE IF ~setupOk THEN "SetupError"
    ELSE ""

\* the entries create_vectorstore adds: none when embedding the chunks fails
CreateAdds(n, embOk) == IF n > 0 /\ ~embOk THEN 0 ELSE n

create_vectorstore(e, n, embOk, setupOk) ==
    LET id == GetOrCreate
        c  == Call(e, "create_vectorstore", n)
    IN  /\ CanCreate
        /\ collCount + n <= MaxCount
        /\ collId' = id
        /\ made' = IF collId = None THEN made + 1 ELSE made
        /\ IF n > 0 /\ ~embOk
           THEN /\ UNCHANGED <<collCount, vectorstore, qa_chain>>
                /\ Log([c EXCEPT !.raised = CreateRaises(n, embOk, setupOk),
                          !.svc = {"index", "embedding"}])
           ELSE /\ collCount' = FromDocumentsCount(collCount, n)
                /\ vectorstore' = [vectorstore EXCEPT ![e] = id]
                /\ IF setupOk
                   THEN /\ qa_chain' = [qa_chain EXCEPT ![e] = id]
                        /\ Log([c EXCEPT !.ret = n,
                                  !.svc = IF n > 0 THEN {"index", "embedding"}
                                          ELSE {"index"}])
                   ELSE /\ UNCHANGED qa_chain
                        /\ Log([c EXCEPT !.raised = CreateRaises(n, embOk, setupOk),
                                  !.svc = IF n > 0 THEN {"index", "embedding"}
                                          ELSE {"index"}])

load_existing_vectorstore(e, setupOk) ==
    LET id == GetOrCreate
        c  == Call(e, "load_existing_vectorstore", 0)
    IN  /\ CanCreate
        /\ collId' = id
        /\ made' = IF collId = None THEN made + 1 ELSE made
        /\ UNCHANGED collCount
        /\ vectorstore' = [vectorstore EXCEPT ![e] = id]
        /\ IF setupOk
           THEN /\ qa_chain' = [qa_chain EXCEPT ![e] = id]
                /\ Log([c EXCEPT !.ret = 1, !.svc = {"index"}])
           ELSE /\ UNCHANGED qa_chain
                /\ Log([c EXCEPT !.ret = 0, !.svc = {"index"}])

\* a guard that looks at the handle instead of the chain
NoVectorstore(e) == vectorstore[e] = None

\* query: "if not self.qa_chain"
NoQaChain(e) == qa_chain[e] = None

\* qa_chain.invoke: embed the question, search the collection of the
\* retriever's handle, generate.  failed names the step that raised.
Invoke(e, embOk, llmOk) ==
    IF qa_chain[e] = None THEN [failed |-> "chain", svc |-> {}]
    ELSE IF ~embOk THEN [failed |-> "embedding", svc |-> {"embedding"}]
    ELSE IF collId # qa_chain[e]
         THEN [failed |-> "index", svc |-> {"embedding", "index"}]
    ELSE IF ~llmOk
         THEN [failed |-> "llm", svc |-> {"embedding", "index", "llm"}]
    ELSE [failed |-> "", svc |-> {"embedding", "index", "llm"}]

\* query without its except clause
QueryResultUncaught(e, embOk, llmOk) ==
    LET c == Call(e, "query", 0)
        r == Invoke(e, embOk, llmOk)
    IN  IF NoQaChain(e) THEN [c EXCEPT !.answer = SENTINEL]
        ELSE IF r.failed = ""
        THEN [c EXCEPT !.answer = ANSWER, !.svc = r.svc,
                       !.sources = Min(TOP_K_RESULTS, collCount)]
        ELSE [c EXCEPT !.raised = "InvokeError", !.svc = r.svc]

QueryResult(e, embOk, llmOk) ==
    LET c == Call(e, "query", 0)
        r == Invoke(e, embOk, llmOk)
    IN  IF NoQaChain(e) THEN [c EXCEPT !.answer = SENTINEL]
        ELSE IF r.failed = ""
        THEN [c EXCEPT !.answer = ANSWER, !.svc = r.svc,
                       !.sources = Min(TOP_K_RESULTS, collCount)]
        ELSE [c EXCEPT !.answer = ERROR, !.svc = r.svc]

query(e, embOk, llmOk) ==
    /\ Log(QueryResult(e, embOk, llmOk))
    /\ UNCHANGED <<storeVars, engineVars>>

\* get_stats counting the named collection instead of the engine's handle
StatsByName(e) == collCount

\* get_stats: 0 without a handle, the count of the handle's collection, and
\* 0 when counting raises because that collection is gone
StatsValue(e) ==
    IF vectorstore[e] = None THEN 0
    ELSE IF collId = vectorstore[e] THEN collCount
    ELSE 0

get_stats(e) ==
    /\ Log([Call(e, "get_stats", 0) EXCEPT
               !.ret = StatsValue(e),
               !.svc = IF vectorstore[e] = None THEN {} ELSE {"index"}])
    /\ UNCHANGED <<storeVars, engineVars>>

\* clear_database: delete_collection(COLLECTION_NAME) deletes by name and
\* raises when no collection has that name
clear_database(e) ==
    LET c == Call(e, "clear_database", 0)
    IN  /\ UNCHANGED made
        /\ IF vectorstore[e] = None
           THEN /\ UNCHANGED <<collId, collCount, engineVars>>
                /\ Log([c EXCEPT !.ret = 1])
           ELSE IF collId = None
           THEN /\ UNCHANGED <<collId, collCount, engineVars>>
                /\ Log([c EXCEPT !.ret = 0, !.svc = {"index"}])
           ELSE /\ collId' = None
                /\ collCount' = 0
                /\ vectorstore' = [vectorstore EXCEPT ![e] = None]
                /\ qa_chain' = [qa_chain EXCEPT ![e] = None]
                /\ Log([c EXCEPT !.ret = 1, !.svc = {"index"}])

(***************************************************************************)
(* The front ends.  Each owns one engine and handles one request at a      *)
(* time.  req describes an upload request in the state that follows it.    *)
(***************************************************************************)
NoReq ==
    [fe |-> "none", outcome |-> "none", files |-> 0, failed |-> 0,
     created |-> {}, left |-> {}, added |-> 0, cnt0 |-> 0, vs0 |-> None,
     qa0 |-> None]

Names(temps) == {temps[i].name : i \in 1..Len(temps)}
Temp(i, suffix, body) == [name |-> i, ext |-> suffix, body |-> body]
NoStage == [temps |-> <<>>, created |-> {}, exc |-> "", failed |-> 0]

\* the module-level / session-start load_existing_vectorstore; app.py calls
\* it again on later reruns
LoadExisting(e) ==
    /\ pc[e] = "startup" \/ (e = "app" /\ pc[e] = "idle")
    /\ \E setupOk \in BOOLEAN : load_existing_vectorstore(e, setupOk)
    /\ pc' = [pc EXCEPT ![e] = "idle"]
    /\ req' = NoReq
    /\ UNCHANGED <<log, loaderVars>>

Query(e) ==
    /\ pc[e] = "idle"
    /\ \E embOk, llmOk \in BOOLEAN : query(e, embOk, llmOk)
    /\ req' = NoReq
    /\ UNCHANGED <<pc, log, loaderVars>>

GetStats(e) ==
    /\ pc[e] = "idle"
    /\ get_stats(e)
    /\ req' = NoReq
    /\ UNCHANGED <<pc, log, loaderVars>>

ClearDatabase(e) ==
    /\ pc[e] = "idle"
    /\ clear_database(e)
    /\ req' = NoReq
    /\ UNCHANGED <<pc, log, loaderVars>>

(***************************************************************************)
(* api.py  POST /upload                                                    *)
(***************************************************************************)
\* the loop over files: validate the extension, write the temporary file,
\* remember its name.  copyOk = FALSE: copying the last file raises.
RECURSIVE ApiStageLoop(_, _, _, _)
ApiStageLoop(files, copyOk, i, st) ==
    IF i > Len(files) THEN st
    ELSE LET ext == Lower(files[i].ext)
         IN  IF ext \notin SUPPORTED_EXTENSIONS
             THEN [st EXCEPT !.exc = "400:ext", !.failed = i]
             ELSE IF i = Len(files) /\ ~copyOk
             THEN [st EXCEPT !.created = @ \cup {i}, !.exc = "500:stage",
                             !.failed = i]
             ELSE ApiStageLoop(files, copyOk, i + 1,
                      [st EXCEPT !.created = @ \cup {i},
                                 !.temps = Append(@, Temp(i, ext, files[i].body))])

\* how the try block ends before create_vectorstore: "" when it reaches it
ApiExc(files, copyOk) ==
    LET st == ApiStageLoop(files, copyOk, 1, NoStage)
        r  == process_documents(st.temps)
    IN  IF st.exc # "" THEN st.exc
        ELSE IF r.raised # "" THEN "500:process"
        ELSE IF r.chunks = 0 THEN "400:nocontent"
        ELSE ""

\* a handler that ingests each file inside the loop, as soon as it is staged
ApiIngestPerFile(files, copyOk) ==
    LET st == ApiStageLoop(files, copyOk, 1, NoStage)
        r  == process_documents(st.temps)
        k  == IF r.failed = 0 THEN Len(st.temps) ELSE r.failed - 1
        before == process_documents(SubSeq(st.temps, 1, k)).chunks
    IN  IF ApiExc(files, copyOk) = "" THEN r.chunks
        ELSE IF before > 0 THEN before ELSE -1

\* the chunks handed to create_vectorstore, -1 when the call is not reached
ApiIngest(files, copyOk) ==
    IF ApiExc(files, copyOk) = ""
    THEN process_documents(ApiStageLoop(files, copyOk, 1, NoStage).temps).chunks
    ELSE -1

\* a cleanup that runs on the success path only
ApiUnlinksOnSuccess(temps, how) == IF how = "200" THEN Names(temps) ELSE {}

\* the finally clause: os.unlink of every name in temp_files
ApiUnlinks(temps, how) == Names(temps)

(***************************************************************************)
(* app.py  "Process Documents": staging and clean-up                       *)
(***************************************************************************)
\* the loop over uploaded_files: write the temporary file (its suffix is
\* the extension as uploaded), remember its name
RECURSIVE AppStageLoop(_, _, _, _)
AppStageLoop(files, writeOk, i, st) ==
    IF i > Len(files) THEN st
    ELSE IF i = Len(files) /\ ~writeOk
    THEN [st EXCEPT !.created = @ \cup {i}, !.exc = "error:stage", !.failed = i]
    ELSE AppStageLoop(files, writeOk, i + 1,
             [st EXCEPT !.created = @ \cup {i},
                        !.temps = Append(@, Temp(i, files[i].ext, files[i].body))])

\* how the try block ends before create_vectorstore: "" when it reaches it
AppExc(files, writeOk) ==
    LET st == AppStageLoop(files, writeOk, 1, NoStage)
    IN  IF st.exc # "" THEN st.exc
        ELSE IF process_documents(st.temps).raised # "" THEN "error:process"
        ELSE ""

\* the clean-up loop stands after create_vectorstore inside the try block:
\* it runs only when nothing raised before it
AppUnlinks(temps, how) == IF how = "success" THEN Names(temps) ELSE {}

\* os.unlink of the names the handler of fe hands to it
Unlinks(fe, temps, how) ==
    IF fe = "api" THEN ApiUnlinks(temps, how) ELSE AppUnlinks(temps, how)

\* the record of the request of front end fe on the batch files, which
\* ended as how after adding n entries: failed is the position of the file
\* that made it fail (0 when none did), created the temporary files it
\* made, left those still on disk when it ended; cnt0, vs0 and qa0 are the
\* entry count and the engine fields it found
Request(fe, files, st, how, n) ==
    IF log # "requests" THEN NoReq
    ELSE [fe |-> fe, outcome |-> how, files |-> Len(files),
          failed |-> IF st.exc # "" THEN st.failed
                     ELSE process_documents(st.temps).failed,
          created |-> st.created,
          left |-> st.created \ Unlinks(fe, st.temps, how),
          added |-> n, cnt0 |-> collCount, vs0 |-> vectorstore[fe],
          qa0 |-> qa_chain[fe]]

(***************************************************************************)
(* The two handlers.                                                       *)
(***************************************************************************)
upload_documents(files, copyOk) ==
    LET st  == ApiStageLoop(files, copyOk, 1, NoStage)
        exc == ApiExc(files, copyOk)
        n   == ApiIngest(files, copyOk)
    IN  /\ pc["api"] = "idle"
        /\ UNCHANGED <<pc, log, loaderVars>>
        /\ IF n < 0
           THEN /\ req' = Request("api", files, st, exc, 0)
                /\ UNCHANGED <<storeVars, engineVars, logVars>>
           ELSE \E embOk, setupOk \in BOOLEAN :
                  LET how == IF exc # "" THEN exc
                             ELSE IF CreateRaises(n, embOk, setupOk) # ""
                             THEN "500:ingest" ELSE "200"
                  IN  /\ create_vectorstore("api", n, embOk, setupOk)
                      /\ req' = Request("api", files, st, how, CreateAdds(n, embOk))

\* "if not files"
ApiUploadNoFiles ==
    /\ pc["api"] = "idle"
    /\ req' = Request("api", <<>>, NoStage, "400:nofiles", 0)
    /\ UNCHANGED <<pc, log, storeVars, engineVars, logVars, loaderVars>>

process_button(files, writeOk) ==
    LET st  == AppStageLoop(files, writeOk, 1, NoStage)
        exc == AppExc(files, writeOk)
        n   == process_documents(st.temps).chunks
    IN  /\ pc["app"] = "idle"
        /\ UNCHANGED <<pc, log, loaderVars>>
        /\ IF exc # ""
           THEN /\ req' = Request("app", files, st, exc, 0)
                /\ UNCHANGED <<storeVars, engineVars, logVars>>
           ELSE \E embOk, setupOk \in BOOLEAN :
                  LET how == IF CreateRaises(n, embOk, setupOk) # ""
                             THEN "error:ingest" ELSE "success"
                  IN  /\ create_vectorstore("app", n, embOk, setupOk)
                      /\ req' = Request("app", files, st, how, CreateAdds(n, embOk))

(***************************************************************************)
(* The system.                                                             *)
(***************************************************************************)
RECURSIVE SeqsUpTo(_, _)
SeqsUpTo(S, k) ==
    IF k = 0 THEN {<<>>}
    ELSE LET shorter == SeqsUpTo(S, k - 1)
         IN  shorter \cup {Append(q, x) : q \in shorter, x \in S}

ApiFiles == {File(".PDF", b) : b \in Bodies} \cup {File(".exe", "text")}
\* st.file_uploader(type=[...]) lets only the four types through
AppFiles == {f \in ApiFiles : Lower(f.ext) \in SUPPORTED_EXTENSIONS}
Batches(S) == SeqsUpTo(S, MaxFiles) \ {<<>>}

Init ==
    /\ collId = None /\ collCount = 0 /\ made = 0
    /\ vectorstore = [e \in Engines |-> None]
    /\ qa_chain = [e \in Engines |-> None]
    /\ last = NoCall /\ prev = NoPrev
    /\ pc = [e \in Engines |-> "startup"]
    /\ req = NoReq
    /\ log = "calls"
    /\ loaderIn = <<>>
    /\ loaderOut = NotRun

Next ==
    \/ \E e \in Engines : LoadExisting(e)
    \/ \E e \in Engines : Query(e)
    \/ \E e \in Engines : GetStats(e)
    \/ \E e \in Engines : ClearDatabase(e)
    \/ ApiUploadNoFiles
    \/ \E files \in Batches(ApiFiles), copyOk \in BOOLEAN : upload_documents(files, copyOk)
    \/ \E files \in Batches(AppFiles), writeOk \in BOOLEAN : process_button(files, writeOk)

Spec == Init /\ [][Next]_vars

\* the same system, keeping the record of the upload requests
InitRequests ==
    /\ collId = None /\ collCount = 0 /\ made = 0
    /\ vectorstore = [e \in Engines |-> None]
    /\ qa_chain = [e \in Engines |-> None]
    /\ last = NoCall /\ prev = NoPrev
    /\ pc = [e \in Engines |-> "startup"]
    /\ req = NoReq
    /\ log = "requests"
    /\ loaderIn = <<>>
    /\ loaderOut = NotRun

SpecRequests == InitRequests /\ [][Next]_vars

(***************************************************************************)
(* The loader alone: process_documents applied to any list of paths.       *)
(***************************************************************************)
LoaderFiles == {File(x, b) : x \in LoaderExts, b \in Bodies}

InitLoader ==
    /\ collId = None /\ collCount = 0 /\ made = 0
    /\ vectorstore = [e \in Engines |-> None]
    /\ qa_chain = [e \in Engines |-> None]
    /\ last = NoCall /\ prev = NoPrev
    /\ pc = [e \in Engines |-> "startup"]
    /\ req = NoReq
    /\ log = "loader"
    /\ loaderIn \in Batches(LoaderFiles)
    /\ loaderOut = NotRun

ProcessDocuments ==
    /\ ~loaderOut.done
    /\ loaderOut' = Ran(process_documents(loaderIn))
    /\ UNCHANGED <<storeVars, engineVars, logVars, pc, req, log, loaderIn>>

SpecLoader == InitLoader /\ [][ProcessDocuments]_vars

(***************************************************************************)
(* Claims.  Under Spec, last is the latest engine call and nothing that    *)
(* touches the engines or the collection has happened since; under         *)
(* SpecRequests, req is the upload request that ended in the last step.    *)
(***************************************************************************)
Ready(e) == vectorstore[e] # None /\ qa_chain[e] # None

\* C1: when POST /upload ends in success, in a 400 for an unsupported
\* extension or for no extracted content, or in a 500 from
\* process_documents or create_vectorstore, no temporary file that the
\* handler created is left on disk.
C1_ApiTempFilesRemoved ==
    (/\ req.fe = "api"
     /\ req.outcome \in {"200", "400:ext", "400:nocontent", "500:process", "500:ingest"})
    => req.left = {}

\* a two-file batch was staged, process_documents raised, and both
\* temporary files are gone
C1_Witness ==
    /\ req.fe = "api"
    /\ req.outcome = "500:process"
    /\ Cardinality(req.created) = 2
    /\ req.left = {}

\* C2: query on an engine without a QA chain returns the sentinel answer
\* with no sources, calls no service and does not raise.
C2_EmptyQuerySentinel ==
    (last.op = "query" /\ qa_chain[last.e] = None)
    => /\ last.answer = SENTINEL
       /\ last.sources = 0
       /\ last.svc = {}
       /\ last.raised = ""

\* the query ran on an engine whose load assigned the handle but failed to
\* set up the chain
C2_Witness ==
    /\ last.op = "query"
    /\ qa_chain[last.e] = None
    /\ vectorstore[last.e] # None
    /\ last.answer = SENTINEL

\* C3: get_stats called right after clear_database on the same engine
\* returns 0.
C3_ClearThenStatsZero ==
    (last.op = "get_stats" /\ prev.op = "clear_database" /\ prev.e = last.e)
    => last.ret = 0

\* clear_database returned False because the other instance had already
\* deleted the collection, and the engine still holds its handle
C3_Witness ==
    /\ last.op = "get_stats"
    /\ prev.op = "clear_database"
    /\ prev.e = last.e
    /\ prev.ret = 0
    /\ vectorstore[last.e] # None
    /\ last.ret = 0

\* C4: a create_vectorstore call that returns adds exactly n entries and
\* returns n; a get_stats call right after it on the same engine returns at
\* least n, and exactly n when the collection was absent or empty before.
C4_IngestAppends ==
    /\ (last.op = "create_vectorstore" /\ last.raised = "")
       => (last.ret = last.n /\ collCount = last.cnt0 + last.n)
    /\ (/\ last.op = "get_stats"
        /\ prev.op = "create_vectorstore"
        /\ prev.e = last.e
        /\ prev.raised = "")
       => (/\ last.ret >= prev.n
           /\ prev.cnt0 = 0 => last.ret = prev.n
           /\ last.ret = prev.cnt0 + prev.n)

\* chunks were ingested into a collection that already held some, and
\* get_stats then reported more than the latest batch
C4_Witness ==
    /\ last.op = "get_stats"
    /\ prev.op = "create_vectorstore"
    /\ prev.e = last.e
    /\ prev.raised = ""
    /\ prev.n > 0
    /\ prev.cnt0 > 0
    /\ last.ret > prev.n

\* C5: create_vectorstore with no chunks fails with EmptyInput and leaves
\* the index and the engine as they were.
C5_EmptyIngestRejected ==
    (last.op = "create_vectorstore" /\ last.n = 0)
    => /\ last.raised = "EmptyInput"
       /\ collCount = last.cnt0
       /\ vectorstore[last.e] = last.vs0
       /\ qa_chain[last.e] = last.qa0

\* the exception classes that leave load_document when a loader cannot parse
\* a file with an accepted extension
ExtractionErrors ==
    {load_document(File(x, "corrupt")).raised : x \in SUPPORTED_EXTENSIONS}

\* C6: when process_documents meets a path whose lowercased extension is not
\* accepted, it fails with an error of another kind than an extraction
\* failure, and builds no loader for that path.
C6_UnsupportedTypeDistinct ==
    (/\ loaderOut.done
     /\ loaderOut.failed > 0
     /\ Lower(loaderIn[loaderOut.failed].ext) \notin SUPPORTED_EXTENSIONS)
    => /\ loaderOut.raised # ""
       /\ loaderOut.raised \notin ExtractionErrors
       /\ loaderOut.loaders[loaderOut.failed] = "none"

\* C7: when POST /upload ends in an error over an unsupported extension or
\* an extraction failure, the request has added no entry, the entry count
\* is what it was, and the engine is as it was.
C7_UploadAllOrNothing ==
    (req.fe = "api" /\ req.outcome \in {"400:ext", "500:process"})
    => /\ req.added = 0
       /\ collCount = req.cnt0
       /\ vectorstore["api"] = req.vs0
       /\ qa_chain["api"] = req.qa0

\* the second file of the batch was rejected after the first had been
\* staged
C7_Witness ==
    /\ req.fe = "api"
    /\ req.outcome \in {"400:ext", "500:process"}
    /\ req.files = 2
    /\ req.failed = 2
    /\ req.created = {1}
    /\ req.added = 0

\* C8: however the "Process Documents" handler ends, no temporary file it
\* staged is left on disk.
C8_AppTempFilesRemoved ==
    req.fe = "app" => req.left = {}

\* C9: query, get_stats and clear_database never raise; on a Ready engine
\* whose collection is gone, query returns the error answer with no
\* sources and get_stats returns 0.
C9_RaceDoesNotCrash ==
    /\ last.op \in {"query", "get_stats", "clear_database"} => last.raised = ""
    /\ (last.op = "query" /\ Ready(last.e) /\ collId # qa_chain[last.e])
       => (last.answer = ERROR /\ last.sources = 0)
    /\ (last.op = "get_stats" /\ Ready(last.e) /\ collId # vectorstore[last.e])
       => last.ret = 0

\* the query ran on a Ready engine after the collection had been deleted
C9_Witness ==
    /\ last.op = "query"
    /\ Ready(last.e)
    /\ collId = None
    /\ last.answer = ERROR

\* C10: on every engine, vectorstore is None exactly when qa_chain is None,
\* and a QA chain is built on the current vectorstore handle.
C10_TwoStates ==
    \A e \in Engines :
        /\ (vectorstore[e] = None) <=> (qa_chain[e] = None)
        /\ qa_chain[e] # None => qa_chain[e] = vectorstore[e]

====
